---- MODULE Spec2Model ----
(***************************************************************************)
(* Products Service (Flask): a process-local product cache                 *)
(* (PRODUCTS_CACHE) with asynchronous write-through to a remote database   *)
(* service.  Request handlers are the actions; every background thread     *)
(* started by a handler is a process of its own, one action per network    *)
(* call (with the sleep that follows it).  The remote database service is  *)
(* an external collaborator known only through the calls main.py makes to  *)
(* it: it is modelled as a store keyed by id whose answer to each call     *)
(* (status, exception, whether the call was carried out) is chosen         *)
(* nondeterministically.  Spec takes each request handler as one step;     *)
(* SpecConcurrent takes get_product, delete_product and cache_stats one    *)
(* cache operation at a time, on several server threads.                   *)
(***************************************************************************)
EXTENDS Integers, Sequences, FiniteSets, TLC

(* ---------------------------------------------------------------- bounds *)
\* uuid.uuid4().hex[:10] is a draw from 16^10 values; the model draws from 1..NumIds.
NumIds == 2
\* Accepted POST /products requests (each starts one persist thread).
MaxCreates == 2
\* Successful DELETE /products/<id> requests (each starts one delete thread).
MaxDeletes == 1
\* Largest ?limit= value enumerated (the smallest is -1).
MaxLimit == 2
\* Requests the server handles at the same time, each on a thread of its own.
MaxInFlight == 2

(* ------------------------------------------------------- program constants *)
max_retries == 3
DEFAULT_LIMIT == 100
SYNC_LIMIT == 1000
\* The factor of wait_time = 2 * (attempt + 1), in seconds.
base_wait == 2

(* ------------------------------------------------------------------ values *)
Ids == 1..NumIds

\* A key that a JSON object does not have (dict.get returns its default).
Absent == "<absent>"
\* The JSON object {}.
EmptyMetadata == "{}"

\* Request bodies of POST /products after request.get_json(): the keys the
\* handler reads.  NoData is null or {}.
NoData == [name |-> Absent, type |-> Absent, metadata |-> Absent]
Bodies ==
    { NoData,
      [name |-> Absent,   type |-> "digital", metadata |-> Absent],
      [name |-> "",       type |-> Absent,    metadata |-> Absent],
      [name |-> "Widget", type |-> Absent,    metadata |-> Absent],
      [name |-> "Widget", type |-> "physical", metadata |-> EmptyMetadata] }

\* Records the database service may hold when the process starts (written by
\* an earlier run or by another client); Legacy carries no "type" key.
Legacy == [id |-> 1, name |-> "Legacy", type |-> Absent, metadata |-> EmptyMetadata]
Imported == [id |-> NumIds, name |-> "Gadget", type |-> "digital", metadata |-> "m"]

\* dict.get(key, default)
DictGet(value, default) == IF value = Absent THEN default ELSE value

\* Python truthiness of a JSON string or of a missing value: `not x`.
Falsy(value) == value = Absent \/ value = ""

(* ----------------------------------------------- PRODUCTS_CACHE (a dict) ---*)
\* A Python dict keeps insertion order: the cache is the sequence of its values,
\* one per key, in insertion order.
\* product_id in PRODUCTS_CACHE
DictHas(c, id) == \E i \in 1..Len(c) : c[i].id = id

IndexOf(c, id) == CHOOSE i \in 1..Len(c) : c[i].id = id

\* PRODUCTS_CACHE[product_id]
DictLookup(c, id) == c[IndexOf(c, id)]

\* A mutant of DictSet: an existing slot is never overwritten.
DictSetIfAbsent(c, id, p) ==
    IF DictHas(c, id) THEN c ELSE Append(c, p)

\* A mutant of DictSet: the assignment is dropped.
DictSetDropped(c, id, p) == c

\* PRODUCTS_CACHE[product_id] = p: an existing key keeps its position, a new
\* key goes last.
DictSet(c, id, p) ==
    IF DictHas(c, id)
    THEN [c EXCEPT ![IndexOf(c, id)] = p]
    ELSE Append(c, p)

\* A mutant of DictPop: the oldest entry is removed, whatever its key.
DictPopFirst(c, id) == Tail(c)

\* A mutant of DictPop: the entry is left in place.
DictPopKeeps(c, id) == c

\* PRODUCTS_CACHE.pop(product_id), the dict that remains.
DictPop(c, id) ==
    LET i == IndexOf(c, id)
    IN  SubSeq(c, 1, i - 1) \o SubSeq(c, i + 1, Len(c))

(* ------------------------------------------------ the database service ---*)
\* The outcome of one HTTP call to the database service, as `requests` hands it
\* to the caller: a response with a status code, or an exception; `products` is
\* the JSON body of a GET.
NoNet == [kind |-> "none", status |-> 0, products |-> << >>]

Response(status, products) ==
    [kind |-> "response", status |-> status, products |-> products]

Raised(kind) == [kind |-> kind, status |-> 0, products |-> << >>]

\* Whether the service carried a create or delete call out: it did when it
\* answers 2xx, it did not when it answers an error status or the connection
\* failed, and a call that timed out may have been carried out all the same.
Applied(net) ==
    IF net.kind = "timeout" THEN BOOLEAN
    ELSE { net.kind = "response" /\ net.status >= 200 /\ net.status < 300 }

RemoteHas(r, id) == \E p \in r : p.id = id

\* All orders in which the service may list the records it holds.
Listings(r) ==
    { s \in [1..Cardinality(r) -> r] :
        \A i, j \in 1..Cardinality(r) : i # j => s[i] # s[j] }

\* requests.post(DB_SERVICE_URL, json=product_data, timeout=5)
PostOutcomes ==
    { Response(200, << >>), Response(201, << >>), Response(204, << >>),
      Response(500, << >>), Raised("timeout"), Raised("connerr") }

\* requests.delete(f"{DB_SERVICE_URL}/{product_id}", timeout=3)
\* (a service asked to delete a record it does not hold answers 404, or 204 when
\* its delete is idempotent)
DeleteOutcomes(r, id) ==
    (IF RemoteHas(r, id)
     THEN { Response(200, << >>), Response(204, << >>) }
     ELSE { Response(404, << >>), Response(204, << >>) })
    \cup { Response(500, << >>), Raised("timeout") }

\* requests.get(f"{DB_SERVICE_URL}/{product_id}", timeout=2)
GetOutcomes(r, id) ==
    (IF RemoteHas(r, id)
     THEN { Response(200, << p >>) : p \in { q \in r : q.id = id } }
     ELSE { Response(404, << >>) })
    \cup { Response(500, << >>), Raised("timeout"), Raised("connerr") }

\* requests.get(f"{DB_SERVICE_URL}?limit=1000", timeout=10)
ListOutcomes(r) ==
    { Response(200, SubSeq(s, 1, IF Len(s) < SYNC_LIMIT THEN Len(s) ELSE SYNC_LIMIT)) :
        s \in Listings(r) }
    \cup { Response(204, << >>), Response(500, << >>), Raised("timeout") }

\* The service after a create call it carried out.
RemoteStore(r, p) == { q \in r : q.id # p.id } \cup { p }

\* The service after a delete call it carried out.
RemoteRemove(r, id) == { q \in r : q.id # id }

(* ------------------------------------------------------------------ state *)
VARIABLES
    PRODUCTS_CACHE,   \* the in-memory cache: the dict's values in insertion order
    remote,           \* the records the database service holds
    persist_threads,  \* the persist_to_database threads, in start order
    delete_threads,   \* the delete_from_database threads, in start order
    req,              \* the step taken last (a request handler or a thread step) and its inputs
    resp,             \* the HTTP answer that step gave (NoAnswer for a thread step)
    createLog,        \* per accepted create: what happened to its cache slot since
    deleteLog,        \* per id: what happened to its cache slot since its last delete
    in_flight         \* per server thread: the request it is in the middle of handling

vars == << PRODUCTS_CACHE, remote, persist_threads, delete_threads,
           req, resp, createLog, deleteLog, in_flight >>

TypeKeys == {"physical", "digital", "unknown"}
NoTypes == [t \in TypeKeys |-> 0]

NoLimit == [present |-> FALSE, numeric |-> TRUE, value |-> 0]

Request(op, id, data, type, limit, net) ==
    [op |-> op, id |-> id, data |-> data, type |-> type, limit |-> limit, net |-> net]

\* jsonify(...), status: the fields of every JSON answer the handlers give.
Answer(status, products, id, name, n, size, types) ==
    [status |-> status, products |-> products, id |-> id, name |-> name,
     n |-> n, size |-> size, types |-> types]

Error(status) == Answer(status, << >>, 0, Absent, 0, 0, NoTypes)

NoAnswer == Error(0)

\* A server thread between two requests.  Of a request in the middle of being
\* handled: op and pc say where the handler is, product_id is its argument, and
\* for cache_stats di_pos, di_used and len are the dict iterator of its loop
\* and product_types the counts so far.
Idle ==
    [op |-> "idle", pc |-> "idle", product_id |-> 0,
     di_pos |-> 0, di_used |-> 0, len |-> 0, product_types |-> NoTypes]

\* A step of a background thread: the call it made, no HTTP answer to anyone.
ThreadStep(op, id, net) == Request(op, id, NoData, Absent, NoLimit, net)

Init ==
    /\ PRODUCTS_CACHE = << >>
    /\ remote \in { {}, {Legacy} }
    /\ persist_threads = << >>
    /\ delete_threads = << >>
    /\ req = Request("none", 0, NoData, Absent, NoLimit, NoNet)
    /\ resp = NoAnswer
    /\ createLog = << >>
    /\ deleteLog = [i \in Ids |-> "none"]
    /\ in_flight = [w \in 1..MaxInFlight |-> Idle]

\* createLog[k].slot: "intact" while nothing has written the slot of the k-th
\* created record since Create returned, "overwritten" once a later Create or a
\* Resync has written it, "deleted" once a Delete of its id has succeeded.
SlotWritten(log, ids) ==
    [k \in 1..Len(log) |->
        IF log[k].product.id \in ids /\ log[k].slot = "intact"
        THEN [log[k] EXCEPT !.slot = "overwritten"]
        ELSE log[k]]

SlotDeleted(log, id) ==
    [k \in 1..Len(log) |->
        IF log[k].product.id = id THEN [log[k] EXCEPT !.slot = "deleted"] ELSE log[k]]

(* --------------------------------------------------------- POST /products *)
\* The product object create_product builds (created_at, a clock reading that
\* is only stored and forwarded, is left out).
NewProduct(product_id, data) ==
    [id |-> product_id,
     name |-> data.name,
     type |-> DictGet(data.type, "physical"),
     metadata |-> DictGet(data.metadata, EmptyMetadata)]

\* threading.Thread(target=persist_to_database, args=(product_id, product_data));
\* calls counts the POSTs the thread has sent, slept the seconds it has spent
\* in time.sleep.
PersistThread(product_id, product_data) ==
    [product_id |-> product_id, product_data |-> product_data,
     attempt |-> 0, pc |-> "request", result |-> FALSE,
     calls |-> 0, wait_time |-> 0, slept |-> 0]

\* A mutant of create_accepts: an empty name passes the validation.
create_accepts_empty(data) == data # NoData /\ data.name # Absent

\* The two validations of create_product: `if not data`, `if not name`.
create_accepts(data) == data # NoData /\ ~Falsy(data.name)

create_product ==
    \E data \in Bodies :
      IF ~create_accepts(data)
      THEN /\ req' = Request("create", 0, data, Absent, NoLimit, NoNet)
           /\ resp' = Error(400)
           /\ UNCHANGED << PRODUCTS_CACHE, remote, persist_threads, delete_threads,
                           createLog, deleteLog, in_flight >>
      ELSE \E product_id \in Ids :
              LET product_data == NewProduct(product_id, data)
              IN  /\ Len(persist_threads) < MaxCreates
                  /\ req' = Request("create", product_id, data, Absent, NoLimit, NoNet)
                  /\ PRODUCTS_CACHE' = DictSet(PRODUCTS_CACHE, product_id, product_data)
                  /\ persist_threads' =
                        Append(persist_threads, PersistThread(product_id, product_data))
                  /\ resp' = Answer(201, << product_data >>, product_id,
                                    product_data.name, 0, 0, NoTypes)
                  /\ createLog' =
                        Append(SlotWritten(createLog, {product_id}),
                               [product |-> product_data, slot |-> "intact"])
                  /\ deleteLog' = [deleteLog EXCEPT ![product_id] = "none"]
                  /\ UNCHANGED << remote, delete_threads, in_flight >>

(* ---------------------------------------------------------- GET /products *)
TypeArgs == {Absent, "", "physical", "digital"}

\* ?limit=: missing, an integer literal, or text that int() rejects.
LimitArgs ==
    { NoLimit, [present |-> TRUE, numeric |-> FALSE, value |-> 0] }
    \cup { [present |-> TRUE, numeric |-> TRUE, value |-> n] : n \in -1..MaxLimit }

\* int(request.args.get("limit", 100)), for an argument int() accepts.
LimitOf(limit) == IF limit.present THEN limit.value ELSE DEFAULT_LIMIT

Min(a, b) == IF a < b THEN a ELSE b
Max(a, b) == IF a > b THEN a ELSE b

\* Python's s[:n]: the first n items, and for a negative n all but the last -n.
PySlice(s, n) ==
    IF n >= 0 THEN SubSeq(s, 1, Min(n, Len(s)))
    ELSE SubSeq(s, 1, Max(Len(s) + n, 0))

\* [p for p in products if p.get("type") == product_type]
FilterType(s, product_type) == SelectSeq(s, LAMBDA p : p.type = product_type)

\* A mutant of list_result: the limit is applied before the filter.
list_result_limit_first(c, product_type, limit) ==
    IF Falsy(product_type) THEN PySlice(c, limit)
    ELSE FilterType(PySlice(c, limit), product_type)

\* The list list_products answers with.
list_result(c, product_type, limit) ==
    PySlice(IF Falsy(product_type) THEN c ELSE FilterType(c, product_type), limit)

list_products ==
    \E product_type \in TypeArgs, limit \in LimitArgs :
      /\ req' = Request("list", 0, NoData, product_type, limit, NoNet)
      /\ resp' = IF ~limit.numeric
                 THEN Error(500)
                 ELSE Answer(200, list_result(PRODUCTS_CACHE, product_type, LimitOf(limit)),
                             0, Absent, 0, 0, NoTypes)
      /\ UNCHANGED << PRODUCTS_CACHE, remote, persist_threads, delete_threads,
                      createLog, deleteLog, in_flight >>

(* ----------------------------------------------------- GET /products/<id> *)
\* A mutant of get_fetched: the answer of the point get is never taken.
get_fetched_never(net) == FALSE

\* response.status_code == 200 after the point get
get_fetched(net) == net.kind = "response" /\ net.status = 200

get_product ==
    \E product_id \in Ids :
      IF DictHas(PRODUCTS_CACHE, product_id)
      THEN /\ req' = Request("get", product_id, NoData, Absent, NoLimit, NoNet)
           /\ resp' = Answer(200, << DictLookup(PRODUCTS_CACHE, product_id) >>,
                             product_id, Absent, 0, 0, NoTypes)
           /\ UNCHANGED << PRODUCTS_CACHE, remote, persist_threads, delete_threads,
                           createLog, deleteLog, in_flight >>
      ELSE \E net \in GetOutcomes(remote, product_id) :
             /\ req' = Request("get", product_id, NoData, Absent, NoLimit, net)
             /\ IF get_fetched(net)
                THEN /\ PRODUCTS_CACHE' = DictSet(PRODUCTS_CACHE, product_id, net.products[1])
                     /\ resp' = Answer(200, net.products, product_id, Absent, 0, 0, NoTypes)
                     /\ deleteLog' = [deleteLog EXCEPT ![product_id] =
                                         IF @ = "none" THEN "none" ELSE "fetched"]
                ELSE /\ resp' = Error(404)
                     /\ UNCHANGED << PRODUCTS_CACHE, deleteLog >>
             /\ UNCHANGED << remote, persist_threads, delete_threads, createLog, in_flight >>

(* -------------------------------------------------- DELETE /products/<id> *)
\* threading.Thread(target=delete_from_database, args=(product_id,));
\* calls counts the DELETEs the thread has sent, result is whether the one it
\* sent was answered 200 or 204 (the thread logs it, nothing reads it).
DeleteThread(product_id) ==
    [product_id |-> product_id, pc |-> "request", calls |-> 0, result |-> FALSE]

delete_product ==
    \E product_id \in Ids :
      /\ req' = Request("delete", product_id, NoData, Absent, NoLimit, NoNet)
      /\ IF ~DictHas(PRODUCTS_CACHE, product_id)
         THEN /\ resp' = Error(404)
              /\ UNCHANGED << PRODUCTS_CACHE, delete_threads, createLog, deleteLog >>
         ELSE LET deleted_product == DictLookup(PRODUCTS_CACHE, product_id)
              IN  /\ Len(delete_threads) < MaxDeletes
                  /\ PRODUCTS_CACHE' = DictPop(PRODUCTS_CACHE, product_id)
                  /\ delete_threads' = Append(delete_threads, DeleteThread(product_id))
                  /\ resp' = Answer(200, << >>, product_id, deleted_product.name,
                                    0, 0, NoTypes)
                  /\ createLog' = SlotDeleted(createLog, product_id)
                  /\ deleteLog' = [deleteLog EXCEPT ![product_id] = "clean"]
      /\ UNCHANGED << remote, persist_threads, in_flight >>

(* ---------------------------------------------------- persist_to_database *)
\* response.status_code in [200, 201]; an exception is no success.
post_succeeded(net) == net.kind = "response" /\ net.status \in {200, 201}

\* A mutant of retry_follows: the loop never gives up.
retry_follows_forever(attempt) == TRUE

\* A mutant of retry_follows: one attempt more than max_retries.
retry_follows_one_more(attempt) == attempt < max_retries

\* `if attempt < max_retries - 1`: the loop has another iteration to run.
retry_follows(attempt) == attempt < max_retries - 1

\* A mutant of backoff: the same wait before every retry.
backoff_constant(attempt) == base_wait

\* wait_time = 2 * (attempt + 1)
backoff(attempt) == base_wait * (attempt + 1)

\* A mutant of persist_cache: a record whose delivery is exhausted is rolled back.
persist_cache_rollback(c, t, net) ==
    IF ~post_succeeded(net) /\ ~retry_follows(t.attempt) /\ DictHas(c, t.product_id)
    THEN DictPop(c, t.product_id) ELSE c

\* The cache after a step of persist_to_database: the function never touches it.
persist_cache(c, t, net) == c

\* One iteration of the retry loop of thread k: the POST, what the code makes of
\* its outcome and, before another iteration, time.sleep(wait_time).
persist_step(k) ==
      LET t == persist_threads[k]
      IN  /\ t.pc = "request"
          /\ \E net \in PostOutcomes : \E applied \in Applied(net) :
               /\ req' = ThreadStep("persist", t.product_id, net)
               /\ remote' = IF applied THEN RemoteStore(remote, t.product_data) ELSE remote
               /\ PRODUCTS_CACHE' = persist_cache(PRODUCTS_CACHE, t, net)
               /\ persist_threads' = [persist_threads EXCEPT ![k] =
                     IF post_succeeded(net)
                     THEN [t EXCEPT !.calls = @ + 1, !.pc = "done", !.result = TRUE]
                     ELSE IF retry_follows(t.attempt)
                     THEN [t EXCEPT !.calls = @ + 1, !.attempt = @ + 1,
                                    !.wait_time = backoff(t.attempt),
                                    !.slept = @ + backoff(t.attempt)]
                     ELSE [t EXCEPT !.calls = @ + 1, !.pc = "done", !.result = FALSE]]
          /\ resp' = NoAnswer
          /\ UNCHANGED << delete_threads, createLog, deleteLog, in_flight >>

\* Every thread runs on its own: a step of any persist_to_database thread.
persist_to_database == \E k \in 1..Len(persist_threads) : persist_step(k)

(* --------------------------------------------------- delete_from_database *)
\* A mutant of delete_done: a failed remote delete is tried again.
delete_done_retrying(net) == net.kind = "response" /\ net.status \in {200, 204}

\* The thread ends after its one call, whatever the answer or exception.
delete_done(net) == TRUE

\* response.status_code in [200, 204]
delete_succeeded(net) == net.kind = "response" /\ net.status \in {200, 204}

\* A mutant of delete_runs: the remote delete waits until no create of the
\* same id is still being delivered.
delete_runs_after_create(threads, product_id) ==
    \A j \in 1..Len(threads) :
        threads[j].product_id = product_id => threads[j].pc = "done"

\* thread.start(): the thread runs at once, whatever the persist_to_database
\* threads (the second parameter names those of the same id) are doing.
delete_runs(threads, product_id) == TRUE

\* The one step of thread k: the DELETE and the log line about its outcome.
delete_step(k) ==
      LET t == delete_threads[k]
      IN  /\ t.pc = "request"
          /\ delete_runs(persist_threads, t.product_id)
          /\ \E net \in DeleteOutcomes(remote, t.product_id) : \E applied \in Applied(net) :
               /\ req' = ThreadStep("unpersist", t.product_id, net)
               /\ remote' = IF applied THEN RemoteRemove(remote, t.product_id) ELSE remote
               /\ delete_threads' = [delete_threads EXCEPT ![k] =
                     [t EXCEPT !.calls = @ + 1,
                               !.result = delete_succeeded(net),
                               !.pc = IF delete_done(net) THEN "done" ELSE "request"]]
          /\ resp' = NoAnswer
          /\ UNCHANGED << PRODUCTS_CACHE, persist_threads, createLog, deleteLog, in_flight >>

\* A step of any delete_from_database thread.
delete_from_database == \E k \in 1..Len(delete_threads) : delete_step(k)

(* ------------------------------------------------------- POST /cache/sync *)
\* A mutant of sync_merge: the cache is replaced by what the service listed.
sync_replace(c, products) == products

\* A mutant of sync_merge: the loop stops after the first product.
sync_merge_first_only(c, products) ==
    IF products = << >> THEN c
    ELSE DictSet(c, products[1].id, products[1])

RECURSIVE sync_merge(_, _)
\* for product in products: PRODUCTS_CACHE[product["id"]] = product
sync_merge(c, products) ==
    IF products = << >> THEN c
    ELSE sync_merge(DictSet(c, products[1].id, products[1]), Tail(products))

\* response.status_code == 200 after the bulk get
sync_answer(net) == net.kind = "response" /\ net.status = 200

sync_cache ==
    \E net \in ListOutcomes(remote) :
      LET listed == { net.products[i].id : i \in 1..Len(net.products) }
      IN  /\ req' = Request("sync", 0, NoData, Absent, NoLimit, net)
          /\ IF sync_answer(net)
             THEN /\ PRODUCTS_CACHE' = sync_merge(PRODUCTS_CACHE, net.products)
                  /\ resp' = Answer(200, << >>, 0, Absent, Len(net.products),
                                    Len(PRODUCTS_CACHE'), NoTypes)
                  /\ createLog' = SlotWritten(createLog, listed)
             ELSE /\ resp' = IF net.kind = "response"
                             THEN Answer(200, << >>, 0, Absent, 0, Len(PRODUCTS_CACHE), NoTypes)
                             ELSE Error(500)
                  /\ UNCHANGED << PRODUCTS_CACHE, createLog >>
          /\ deleteLog' = [i \in Ids |-> "none"]
          /\ UNCHANGED << remote, persist_threads, delete_threads, in_flight >>

(* ------------------------------------------------------- GET /cache/stats *)
\* product_types: the number of cached products per product.get("type", "unknown")
\* (a type that no product has is reported here as 0, in the code it has no key).
stats_types(c) ==
    [t \in TypeKeys |-> Cardinality({ i \in 1..Len(c) : DictGet(c[i].type, "unknown") = t })]

\* total_products: len(PRODUCTS_CACHE)
stats_total(c) == Len(c)

cache_stats ==
    /\ req' = Request("stats", 0, NoData, Absent, NoLimit, NoNet)
    /\ resp' = Answer(200, << >>, 0, Absent, 0, stats_total(PRODUCTS_CACHE),
                      stats_types(PRODUCTS_CACHE))
    /\ UNCHANGED << PRODUCTS_CACHE, remote, persist_threads, delete_threads,
                    createLog, deleteLog, in_flight >>

(* ------------------------------------ the handlers, statement by statement *)
\* The server handles each request on a thread of its own, and the interpreter
\* may switch threads between any two operations on PRODUCTS_CACHE.  Server
\* thread w goes through a handler one cache operation at a time; a single
\* operation (a test of membership, a lookup, a store, a pop, a step of an
\* iterator, len) is atomic.

\* The step taken by thread w, of a request still being handled or answered.
HandlerStep(op, product_id, net) == Request(op, product_id, NoData, Absent, NoLimit, net)

\* iter(PRODUCTS_CACHE.values()): a dict iterator remembers the size of the
\* dict, the entries it may still yield and where it stands.
DictIter(r, c) == [r EXCEPT !.di_pos = 0, !.di_used = Len(c), !.len = Len(c)]

\* What the pop of the i-th entry means to a running iterator: an entry it had
\* passed is gone from before it.
IterAfterPop(r, i) ==
    IF r.op = "stats" /\ r.pc \in {"types", "chars"} /\ i <= r.di_pos
    THEN [r EXCEPT !.di_pos = @ - 1]
    ELSE r

\* GET /products/<id>, line 147: the membership test.
get_begin(w) ==
    \E product_id \in Ids :
      /\ in_flight[w] = Idle
      /\ in_flight' = [in_flight EXCEPT ![w] =
            [Idle EXCEPT !.op = "get", !.product_id = product_id,
                         !.pc = IF DictHas(PRODUCTS_CACHE, product_id)
                                THEN "hit" ELSE "miss"]]
      /\ req' = HandlerStep("get", product_id, NoNet)
      /\ resp' = NoAnswer
      /\ UNCHANGED << PRODUCTS_CACHE, remote, persist_threads, delete_threads,
                      createLog, deleteLog >>

\* Line 148: the lookup, a KeyError when the key has gone since the test
\* (caught at line 162 and answered 500).
get_hit(w) ==
    LET r == in_flight[w]
    IN  /\ r.op = "get" /\ r.pc = "hit"
        /\ req' = HandlerStep("get", r.product_id, NoNet)
        /\ resp' = IF DictHas(PRODUCTS_CACHE, r.product_id)
                   THEN Answer(200, << DictLookup(PRODUCTS_CACHE, r.product_id) >>,
                               r.product_id, Absent, 0, 0, NoTypes)
                   ELSE Error(500)
        /\ in_flight' = [in_flight EXCEPT ![w] = Idle]
        /\ UNCHANGED << PRODUCTS_CACHE, remote, persist_threads, delete_threads,
                        createLog, deleteLog >>

\* Lines 152-160: the point get and the store of what it fetched.
get_miss(w) ==
    LET r == in_flight[w]
    IN  /\ r.op = "get" /\ r.pc = "miss"
        /\ \E net \in GetOutcomes(remote, r.product_id) :
              /\ req' = HandlerStep("get", r.product_id, net)
              /\ IF get_fetched(net)
                 THEN /\ PRODUCTS_CACHE' =
                            DictSet(PRODUCTS_CACHE, r.product_id, net.products[1])
                      /\ resp' = Answer(200, net.products, r.product_id, Absent,
                                        0, 0, NoTypes)
                      /\ createLog' = SlotWritten(createLog, {r.product_id})
                      /\ deleteLog' = [deleteLog EXCEPT ![r.product_id] =
                                          IF @ = "none" THEN "none" ELSE "fetched"]
                 ELSE /\ resp' = Error(404)
                      /\ UNCHANGED << PRODUCTS_CACHE, createLog, deleteLog >>
        /\ in_flight' = [in_flight EXCEPT ![w] = Idle]
        /\ UNCHANGED << remote, persist_threads, delete_threads >>

\* DELETE /products/<id>, lines 170-171: the membership test.
delete_begin(w) ==
    \E product_id \in Ids :
      /\ in_flight[w] = Idle
      /\ req' = HandlerStep("delete", product_id, NoNet)
      /\ IF ~DictHas(PRODUCTS_CACHE, product_id)
         THEN /\ resp' = Error(404)
              /\ UNCHANGED in_flight
         ELSE /\ resp' = NoAnswer
              /\ in_flight' = [in_flight EXCEPT ![w] =
                    [Idle EXCEPT !.op = "delete", !.pc = "pop",
                                 !.product_id = product_id]]
      /\ UNCHANGED << PRODUCTS_CACHE, remote, persist_threads, delete_threads,
                      createLog, deleteLog >>

\* Lines 174-191: the pop, a KeyError when the key has gone since the test
\* (caught at line 193 and answered 500), then the thread and the answer.
delete_pop(w) ==
    LET r == in_flight[w]
    IN  /\ r.op = "delete" /\ r.pc = "pop"
        /\ req' = HandlerStep("delete", r.product_id, NoNet)
        /\ IF ~DictHas(PRODUCTS_CACHE, r.product_id)
           THEN /\ resp' = Error(500)
                /\ in_flight' = [in_flight EXCEPT ![w] = Idle]
                /\ UNCHANGED << PRODUCTS_CACHE, delete_threads, createLog, deleteLog >>
           ELSE LET deleted_product == DictLookup(PRODUCTS_CACHE, r.product_id)
                    i == IndexOf(PRODUCTS_CACHE, r.product_id)
                IN  /\ Len(delete_threads) < MaxDeletes
                    /\ PRODUCTS_CACHE' = DictPop(PRODUCTS_CACHE, r.product_id)
                    /\ delete_threads' = Append(delete_threads, DeleteThread(r.product_id))
                    /\ resp' = Answer(200, << >>, r.product_id, deleted_product.name,
                                      0, 0, NoTypes)
                    /\ createLog' = SlotDeleted(createLog, r.product_id)
                    /\ deleteLog' = [deleteLog EXCEPT ![r.product_id] = "clean"]
                    /\ in_flight' = [v \in 1..MaxInFlight |->
                                        IF v = w THEN Idle
                                        ELSE IterAfterPop(in_flight[v], i)]
        /\ UNCHANGED << remote, persist_threads >>

\* GET /cache/stats, lines 284-285: product_types = {} and the iterator of the
\* for loop.
stats_begin(w) ==
    /\ in_flight[w] = Idle
    /\ in_flight' = [in_flight EXCEPT ![w] =
          DictIter([Idle EXCEPT !.op = "stats", !.pc = "types"], PRODUCTS_CACHE)]
    /\ req' = HandlerStep("stats", 0, NoNet)
    /\ resp' = NoAnswer
    /\ UNCHANGED << PRODUCTS_CACHE, remote, persist_threads, delete_threads,
                    createLog, deleteLog >>

\* One step of the iterator, in the loop of lines 285-287 ("types") or in the
\* sum of line 290 ("chars"): it raises RuntimeError when the dict has changed
\* size, or when it finds an entry after having yielded as many as the dict
\* had; nothing in cache_stats catches it and Flask answers 500.  The end of
\* the first loop starts the second, the end of the second leads to line 293.
stats_next(w) ==
    LET r == in_flight[w]
        c == PRODUCTS_CACHE
    IN  /\ r.op = "stats" /\ r.pc \in {"types", "chars"}
        /\ req' = HandlerStep("stats", 0, NoNet)
        /\ IF r.di_used # Len(c)
           THEN /\ resp' = Error(500)
                /\ in_flight' = [in_flight EXCEPT ![w] = Idle]
           ELSE IF r.di_pos >= Len(c)
           THEN /\ resp' = NoAnswer
                /\ in_flight' = [in_flight EXCEPT ![w] =
                      IF r.pc = "types" THEN DictIter([r EXCEPT !.pc = "chars"], c)
                      ELSE [r EXCEPT !.pc = "len"]]
           ELSE IF r.len = 0
           THEN /\ resp' = Error(500)
                /\ in_flight' = [in_flight EXCEPT ![w] = Idle]
           ELSE LET ptype == DictGet(c[r.di_pos + 1].type, "unknown")
                IN  /\ resp' = NoAnswer
                    /\ in_flight' = [in_flight EXCEPT ![w] =
                          [r EXCEPT !.di_pos = @ + 1, !.len = @ - 1,
                                    !.product_types =
                                       IF r.pc = "types"
                                       THEN [@ EXCEPT ![ptype] = @ + 1] ELSE @]]
        /\ UNCHANGED << PRODUCTS_CACHE, remote, persist_threads, delete_threads,
                        createLog, deleteLog >>

\* Lines 292-299: len(PRODUCTS_CACHE) and the answer.
stats_answer(w) ==
    LET r == in_flight[w]
    IN  /\ r.op = "stats" /\ r.pc = "len"
        /\ req' = HandlerStep("stats", 0, NoNet)
        /\ resp' = Answer(200, << >>, 0, Absent, 0, stats_total(PRODUCTS_CACHE),
                          r.product_types)
        /\ in_flight' = [in_flight EXCEPT ![w] = Idle]
        /\ UNCHANGED << PRODUCTS_CACHE, remote, persist_threads, delete_threads,
                        createLog, deleteLog >>

get_product_step == \E w \in 1..MaxInFlight : get_begin(w) \/ get_hit(w) \/ get_miss(w)

delete_product_step == \E w \in 1..MaxInFlight : delete_begin(w) \/ delete_pop(w)

cache_stats_step ==
    \E w \in 1..MaxInFlight : stats_begin(w) \/ stats_next(w) \/ stats_answer(w)

(* --------------------------------------------------------- specifications *)
\* The service: the mutating handlers, the read of one product, and the threads.
Next ==
    \/ create_product
    \/ get_product
    \/ delete_product
    \/ persist_to_database
    \/ delete_from_database
    \/ sync_cache

Spec == Init /\ [][Next]_vars

\* The server under concurrent requests: Get, Delete and Stats run statement by
\* statement on up to MaxInFlight threads, between the steps of each other and
\* of Create and Resync.
NextConcurrent ==
    \/ create_product
    \/ sync_cache
    \/ get_product_step
    \/ delete_product_step
    \/ cache_stats_step

SpecConcurrent == Init /\ [][NextConcurrent]_vars

\* Thread k exists and takes a step.
persist_runs(k) == k \in 1..Len(persist_threads) /\ persist_step(k)

\* The service with its threads scheduled fairly: a persist_to_database thread
\* that has a call to make is eventually run, and the call returns or raises
\* within its timeout of 5 seconds, as does time.sleep.
NextLive ==
    \/ create_product
    \/ get_product
    \/ delete_product
    \/ persist_to_database
    \/ sync_cache

SpecLive ==
    Init /\ [][NextLive]_vars /\ \A k \in 1..MaxCreates : WF_vars(persist_runs(k))

\* The products a cache can hold: created ones, and ones the service held before.
Products == { NewProduct(id, data) : id \in Ids, data \in { b \in Bodies : create_accepts(b) } }
            \cup { Legacy, Imported }

\* The caches the service can be in: any products under distinct ids, in any order.
Caches ==
    UNION { { c \in [1..n -> Products] : \A i, j \in 1..n : i # j => c[i].id # c[j].id } :
            n \in 0..NumIds }

\* The read-only handlers over every cache: after a restart and a sync the cache
\* holds what the database service listed, in the order it listed it.
InitRead ==
    /\ PRODUCTS_CACHE \in Caches
    /\ remote = { PRODUCTS_CACHE[i] : i \in 1..Len(PRODUCTS_CACHE) }
    /\ persist_threads = << >>
    /\ delete_threads = << >>
    /\ req = Request("none", 0, NoData, Absent, NoLimit, NoNet)
    /\ resp = NoAnswer
    /\ createLog = << >>
    /\ deleteLog = [i \in Ids |-> "none"]
    /\ in_flight = [w \in 1..MaxInFlight |-> Idle]

NextRead ==
    \/ list_products
    \/ cache_stats

SpecRead == InitRead /\ [][NextRead]_vars

(* ================================================================ claims *)
\* The step taken last was the handler `op`.
Handled(op) == req.op = op

\* The cache holds product p under its id.
Holds(c, p) == DictHas(c, p.id) /\ DictLookup(c, p.id) = p

\* Sequence s has p among its items.
Lists(s, p) == \E i \in 1..Len(s) : s[i] = p

\* A 2xx answer of the database service.
Is2xx(net) == net.kind = "response" /\ net.status >= 200 /\ net.status < 300

(* ---- C1 ---- *)
\* C1 as stated: after Delete(id) has returned successfully, and with no Create
\* or Resync in between, every later Get(id) answers NotFound and id stays
\* absent from the Entry Store, whatever the outcome of the remote delete.
C1_Original ==
    \A id \in Ids :
      deleteLog[id] # "none" =>
        /\ ~DictHas(PRODUCTS_CACHE, id)
        /\ (Handled("get") /\ req.id = id => resp.status = 404)

\* C1 (amended): after Delete(id) has returned successfully, and with no Create,
\* no Resync and no Get(id) whose remote point-get answered 200 in between, id is
\* absent from the Entry Store and a Get(id) that has just run answered NotFound,
\* whatever the delete propagation did in the meantime.
C1_DeleteSticks ==
    \A id \in Ids :
      deleteLog[id] = "clean" =>
        /\ ~DictHas(PRODUCTS_CACHE, id)
        /\ (Handled("get") /\ req.id = id => resp.status = 404)

\* A Get(id) answered NotFound after Delete(id), the delete thread has made its
\* call and the database service still holds id (the remote delete failed).
C1_Witness ==
    \E id \in Ids :
      /\ deleteLog[id] = "clean"
      /\ Handled("get") /\ req.id = id /\ resp.status = 404
      /\ \E k \in 1..Len(delete_threads) :
            delete_threads[k].product_id = id /\ delete_threads[k].pc = "done"
      /\ RemoteHas(remote, id)

(* ---- C2 ---- *)
\* C2 as stated: Resync fails with SyncError (HTTP 500) whenever the remote
\* bulk-list call raises an error or answers with a non-2xx status, and in that
\* case the Entry Store is unchanged; only a successful remote answer yields a
\* success response carrying the merged count.
C2_Original ==
    [][ req'.op = "sync" =>
          IF Is2xx(req'.net)
          THEN resp'.status = 200 /\ resp'.n = Len(req'.net.products)
          ELSE resp'.status = 500 /\ PRODUCTS_CACHE' = PRODUCTS_CACHE ]_vars

(* ---- C3 ---- *)
\* The k-th accepted create: its record is in the store, and Get and List
\* (unfiltered, default limit) return it.
C3_StillServed(k) ==
    LET p == createLog[k].product
    IN  /\ Holds(PRODUCTS_CACHE, p)
        /\ Lists(list_result(PRODUCTS_CACHE, Absent, DEFAULT_LIMIT), p)
        /\ (Handled("get") /\ req.id = p.id => resp.status = 200 /\ resp.products = << p >>)

C4_ResyncMerges ==
    Handled("sync") /\ req.net.kind = "response" /\ req.net.status = 200 =>
      LET products == req.net.products
          N == Len(products)
      IN  /\ resp.status = 200
          /\ resp.n = N
          /\ stats_total(PRODUCTS_CACHE) >= N
          /\ resp.size = stats_total(PRODUCTS_CACHE)
          /\ \A i \in 1..N : Holds(PRODUCTS_CACHE, products[i])

\* A Resync of one remote record into a store that also keeps a record the
\* remote did not list.
C4_Witness ==
    /\ Handled("sync") /\ req.net.kind = "response" /\ req.net.status = 200
    /\ Len(req.net.products) = 1
    /\ resp.n = 1
    /\ stats_total(PRODUCTS_CACHE) = 2

(* ---- C5 ---- *)
\* The Get that has just run for the id of record p returned p.
C5_GetReturns(p) ==
    Handled("get") /\ req.id = p.id => resp.status = 200 /\ resp.products = << p >>

C7_Expected(c, product_type, limit) ==
    LET matching == IF product_type = Absent THEN c ELSE FilterType(c, product_type)
    IN  SubSeq(matching, 1, Min(Max(limit, 0), Len(matching)))

\* C7 as stated: for every store state, filter value c and limit,
\* List(filter=c, limit) returns exactly the first `limit` entries, in the
\* store's insertion order, of the stored entries whose category equals c;
\* without a filter it returns the first `limit` of all entries.  The result
\* never has more than `limit` entries and never contains an entry of another
\* category.
C7_Original ==
    Handled("list") /\ req.limit.numeric =>
      /\ resp.status = 200
      /\ resp.products = C7_Expected(PRODUCTS_CACHE, req.type, LimitOf(req.limit))
      /\ Len(resp.products) <= LimitOf(req.limit)
      /\ req.type # Absent =>
            \A i \in 1..Len(resp.products) : resp.products[i].type = req.type

\* C7 (amended): for every store state, non-empty filter value c and limit >= 0,
\* List(filter=c, limit) returns exactly the first `limit` entries, in the
\* store's insertion order, of the stored entries whose category equals c;
\* without a filter, or with an empty filter value, it returns the first `limit`
\* of all entries.  For limit >= 0 the result never has more than `limit`
\* entries, and with a non-empty filter it never contains an entry of another
\* category.  A negative limit -k returns the selected entries without their
\* last k.
C7_ListContract ==
    Handled("list") /\ req.limit.numeric =>
      LET n == LimitOf(req.limit)
          selected == IF req.type \in {Absent, ""} THEN PRODUCTS_CACHE
                      ELSE FilterType(PRODUCTS_CACHE, req.type)
      IN  /\ resp.status = 200
          /\ IF n >= 0
             THEN /\ resp.products = SubSeq(selected, 1, Min(n, Len(selected)))
                  /\ Len(resp.products) <= n
             ELSE resp.products = SubSeq(selected, 1, Max(Len(selected) + n, 0))
          /\ req.type \notin {Absent, ""} =>
                \A i \in 1..Len(resp.products) : resp.products[i].type = req.type

\* A filtered List with limit 1 over a store whose first entry is of another
\* category.
C7_Witness ==
    /\ Handled("list") /\ req.type = "digital"
    /\ req.limit.present /\ req.limit.numeric /\ req.limit.value = 1
    /\ Len(PRODUCTS_CACHE) = 2 /\ PRODUCTS_CACHE[1].type # "digital"
    /\ resp.products = << Imported >>

C9_Attempts(Delivered(_)) ==
    \A k \in 1..Len(persist_threads) :
      LET t == persist_threads[k]
          u == persist_threads'[k]
      IN  /\ u.calls <= 3
          /\ u.calls \in {t.calls, t.calls + 1}
          /\ u.product_data = t.product_data
          /\ u.calls = t.calls + 1 =>
                /\ req'.op = "persist" /\ t.pc = "request"
                /\ IF Delivered(req'.net) THEN u.pc = "done" /\ u.result
                   ELSE IF u.calls < 3 THEN u.pc = "request"
                   ELSE u.pc = "done" /\ ~u.result
          /\ t.pc = "done" => u = t

\* C9 as stated: for each accepted Create, the propagation task makes at most 3
\* remote create calls for that record; it makes a further attempt exactly when
\* the previous attempt failed (non-2xx status, connection error or timeout) and
\* fewer than 3 attempts were made; after an attempt answered with a 2xx status,
\* or after the third failure, no further create call for that record is ever
\* sent.
C9_Original == [][ C9_Attempts(Is2xx) ]_vars

\* An answer with status 200 or 201.
C9_Is200or201(net) == net.kind = "response" /\ net.status \in {200, 201}

\* C9 (amended): as C9, with success being an answer of status 200 or 201 and
\* failure every other outcome (any other status, 2xx ones such as 204
\* included, a connection error or a timeout).
C9_BoundedRetries == [][ C9_Attempts(C9_Is200or201) ]_vars

\* A delivery that succeeded at its second attempt.
C9_Witness ==
    \E k \in 1..Len(persist_threads) :
      /\ persist_threads[k].pc = "done" /\ persist_threads[k].result
      /\ persist_threads[k].calls = 2
      /\ Handled("persist") /\ req.net.status = 201

(* ---- C10 ---- *)
\* C10: for each successful Delete(id), the propagation task issues exactly one
\* remote delete call for id, with no retry whatever the outcome, and never
\* writes the Entry Store: if the remote delete fails, id is not re-inserted
\* locally and the failure is not reported to the client, which has already
\* received success.
C10_OneRemoteDelete ==
    [][ /\ Len(delete_threads') =
              Len(delete_threads) + (IF req'.op = "delete" /\ resp'.status = 200 THEN 1 ELSE 0)
        /\ (req'.op = "delete" /\ resp'.status = 200) =>
              /\ delete_threads'[Len(delete_threads')].product_id = req'.id
              /\ delete_threads'[Len(delete_threads')].calls = 0
        /\ \A k \in 1..Len(delete_threads) :
              LET t == delete_threads[k]
                  u == delete_threads'[k]
              IN  /\ u.product_id = t.product_id
                  /\ u.calls \in {t.calls, t.calls + 1}
                  /\ u.calls <= 1
                  /\ u.calls = t.calls + 1 =>
                        /\ req'.op = "unpersist" /\ req'.id = t.product_id
                        /\ u.pc = "done"
                        /\ PRODUCTS_CACHE' = PRODUCTS_CACHE
                        /\ resp' = NoAnswer
                  /\ t.pc = "done" => u = t ]_vars

\* The one remote delete of a deleted id failed: the thread is done, the
\* database service still holds the id and the store does not.
C10_Witness ==
    \E k \in 1..Len(delete_threads) :
      /\ Handled("unpersist") /\ req.net.status = 500
      /\ delete_threads[k].pc = "done" /\ delete_threads[k].calls = 1
      /\ RemoteHas(remote, delete_threads[k].product_id)
      /\ ~DictHas(PRODUCTS_CACHE, delete_threads[k].product_id)

(* ---- C11 ---- *)
\* C11: Get(id) on a local miss issues exactly one remote point-get: if it
\* succeeds (status 200), the fetched record is upserted under id in the Entry
\* Store, every other entry is unchanged, and the record is returned; if it
\* fails in any way (another status, a connection error, a timeout), the caller
\* gets NotFound and the Entry Store is unchanged.  Get(id) on a local hit makes
\* no remote call, returns the stored record and changes nothing.  No Get
\* writes to the database service or starts a thread.
C11_ReadThrough ==
    [][ req'.op = "get" =>
          LET id == req'.id
              net == req'.net
          IN  /\ remote' = remote
              /\ persist_threads' = persist_threads
              /\ delete_threads' = delete_threads
              /\ IF DictHas(PRODUCTS_CACHE, id)
                 THEN /\ net = NoNet
                      /\ PRODUCTS_CACHE' = PRODUCTS_CACHE
                      /\ resp'.status = 200
                      /\ resp'.products = << DictLookup(PRODUCTS_CACHE, id) >>
                 ELSE /\ net # NoNet
                      /\ IF net.kind = "response" /\ net.status = 200
                         THEN /\ Len(net.products) = 1
                              /\ PRODUCTS_CACHE' = Append(PRODUCTS_CACHE, net.products[1])
                              /\ net.products[1] \in remote
                              /\ resp'.status = 200
                              /\ resp'.products = net.products
                         ELSE /\ resp'.status = 404
                              /\ PRODUCTS_CACHE' = PRODUCTS_CACHE ]_vars

\* A Get missed locally, fetched the record from the database service and
\* stored it beside an entry the store already held.
C11_Witness ==
    /\ Handled("get") /\ req.net.kind = "response" /\ req.net.status = 200
    /\ resp.status = 200 /\ resp.products = << Legacy >>
    /\ Len(PRODUCTS_CACHE) = 2
    /\ PRODUCTS_CACHE[2] = Legacy

(* ---- C12 ---- *)
\* C12: Delete(id) for an id absent from the Entry Store signals NotFound
\* (404), leaves the Entry Store unchanged, and starts no delete propagation;
\* Delete(id) for a present id removes exactly that entry, leaves every other
\* entry unchanged (and in its order), starts one delete propagation for id, and
\* returns the removed record's id and name.  No Delete calls the database
\* service itself.
C12_DeleteContract ==
    [][ req'.op = "delete" =>
          LET id == req'.id
          IN  /\ remote' = remote
              /\ persist_threads' = persist_threads
              /\ IF ~DictHas(PRODUCTS_CACHE, id)
                 THEN /\ resp'.status = 404
                      /\ PRODUCTS_CACHE' = PRODUCTS_CACHE
                      /\ delete_threads' = delete_threads
                 ELSE /\ resp'.status = 200
                      /\ resp'.id = id
                      /\ resp'.name = DictLookup(PRODUCTS_CACHE, id).name
                      /\ PRODUCTS_CACHE' = SelectSeq(PRODUCTS_CACHE, LAMBDA p : p.id # id)
                      /\ Len(PRODUCTS_CACHE') = Len(PRODUCTS_CACHE) - 1
                      /\ Len(delete_threads') = Len(delete_threads) + 1
                      /\ SubSeq(delete_threads', 1, Len(delete_threads)) = delete_threads
                      /\ delete_threads'[Len(delete_threads')].product_id = id
                      /\ delete_threads'[Len(delete_threads')].calls = 0 ]_vars

\* A Delete removed the newer of two entries and returned its name; the older
\* entry is still in the store.
C12_Witness ==
    /\ Handled("delete") /\ resp.status = 200
    /\ resp.id = 2 /\ resp.name = "Widget"
    /\ PRODUCTS_CACHE = << Legacy >>
    /\ Len(delete_threads) = 1 /\ delete_threads[1].product_id = 2

(* ---- C13 ---- *)
\* C13: create and delete propagation for the same key may reach the remote out
\* of order.  Nothing orders the two threads: whenever a propagation thread has
\* its call still to make it can make it at once, whatever the other threads
\* have done; a create call the database service carried out leaves the record
\* in the remote store whether or not the Entry Store still holds its id; and a
\* step that is not a propagation call never changes the remote store.  So the
\* state of C13_Witness is reachable, and once both threads have ended nothing
\* the service does repairs it.
C13_Unordered ==
    /\ \A k \in 1..Len(persist_threads) :
          persist_threads[k].pc = "request" => ENABLED persist_step(k)
    /\ \A k \in 1..Len(delete_threads) :
          delete_threads[k].pc = "request" => ENABLED delete_step(k)
    /\ (Handled("persist") /\ Is2xx(req.net)) =>
          \E k \in 1..Len(persist_threads) :
            /\ persist_threads[k].product_id = req.id
            /\ persist_threads[k].product_data \in remote
    /\ (Handled("unpersist") /\ Is2xx(req.net)) => ~RemoteHas(remote, req.id)

\* Create(r) and then Delete(r.id) both succeeded locally, the one remote
\* create call and the one remote delete call were both answered success, both
\* threads have ended, the remote delete came first (the create call is the
\* step taken last), and the remote store holds r while the Entry Store does not.
C13_Witness ==
    /\ Len(persist_threads) = 1 /\ Len(delete_threads) = 1
    /\ createLog[1].slot = "deleted"
    /\ createLog[1].product.id = 2
    /\ persist_threads[1].pc = "done" /\ persist_threads[1].result
    /\ persist_threads[1].calls = 1
    /\ delete_threads[1].product_id = 2
    /\ delete_threads[1].pc = "done" /\ delete_threads[1].result
    /\ Handled("persist") /\ req.net.status = 201
    /\ createLog[1].product \in remote
    /\ ~DictHas(PRODUCTS_CACHE, 2)

(* ---- C14 ---- *)
\* C14: every create propagation thread, given that each network attempt
\* returns or times out, eventually ends, in exactly one of succeeded (result
\* TRUE) and exhausted (result FALSE).  Each call it makes either ends it or
\* takes it one attempt further, of at most max_retries; once ended it never
\* runs again and its outcome never changes, so after exhaustion the service
\* sends no further create call for the record; a Resync or a Get sends no
\* create call and changes neither the threads nor the remote store.
C14_Terminates ==
    /\ \A k \in 1..MaxCreates :
          (Len(persist_threads) >= k)
             ~> (Len(persist_threads) >= k /\ persist_threads[k].pc = "done")
    /\ [][ /\ Len(persist_threads') >= Len(persist_threads)
           /\ \A k \in 1..Len(persist_threads) :
                 LET t == persist_threads[k]
                     u == persist_threads'[k]
                 IN  /\ u.pc \in {"request", "done"}
                     /\ u.attempt < max_retries
                     /\ u # t =>
                           /\ req'.op = "persist" /\ req'.id = t.product_id
                           /\ t.pc = "request"
                           /\ u.calls = t.calls + 1
                           /\ \/ u.pc = "done" /\ u.attempt = t.attempt
                              \/ u.pc = "request" /\ u.attempt = t.attempt + 1
                     /\ t.pc = "done" => u = t
           /\ req'.op \in {"get", "sync"} =>
                 persist_threads' = persist_threads /\ remote' = remote ]_vars

\* A create propagation has ended exhausted after three calls, and a Resync
\* that ran afterwards has left it so.
C14_Witness ==
    /\ Handled("sync") /\ resp.status = 200
    /\ \E k \in 1..Len(persist_threads) :
          /\ persist_threads[k].pc = "done" /\ ~persist_threads[k].result
          /\ persist_threads[k].calls = 3
          /\ ~RemoteHas(remote, persist_threads[k].product_id)

(* ---- C15 ---- *)
\* C15: in create propagation the wait after failed attempt k (k = 1, 2) is k
\* times the base wait, so base after attempt 1 and 2*base after attempt 2;
\* there is no wait after the third (final) attempt and no wait after a
\* successful attempt (one answered 200 or 201, see C9).  A thread sleeps at no
\* other time, so it has slept 0, base or 3*base seconds when it ends.
C15_LinearBackoff ==
    [][ \A k \in 1..Len(persist_threads) :
          LET t == persist_threads[k]
              u == persist_threads'[k]
              failed == ~C9_Is200or201(req'.net)
          IN  /\ u.calls = t.calls =>
                    u.slept = t.slept /\ u.wait_time = t.wait_time
              /\ u.calls = t.calls + 1 =>
                    IF failed /\ u.calls < 3
                    THEN /\ u.wait_time = u.calls * base_wait
                         /\ u.slept = t.slept + u.wait_time
                    ELSE /\ u.slept = t.slept
                         /\ u.wait_time = t.wait_time
              /\ u.pc = "done" =>
                    u.slept = (IF u.calls = 1 THEN 0
                               ELSE IF u.calls = 2 THEN base_wait
                               ELSE 3 * base_wait) ]_vars

\* A propagation failed three times: it waited base, then 2*base, and did not
\* wait after its third attempt.
C15_Witness ==
    \E k \in 1..Len(persist_threads) :
      /\ Handled("persist") /\ req.net.kind = "connerr"
      /\ persist_threads[k].pc = "done" /\ ~persist_threads[k].result
      /\ persist_threads[k].calls = 3
      /\ persist_threads[k].wait_time = 2 * base_wait
      /\ persist_threads[k].slept = 3 * base_wait

(* ---- C16 ---- *)
\* C16 as stated: Stats returns a consistent snapshot of the Entry Store also
\* when creates, deletes, read-through upserts or resyncs run concurrently with
\* its scan: in every Stats response the reported count equals the sum of
\* counts_by_category, and Stats always completes with a result rather than an
\* error.
C16_Original ==
    (Handled("stats") /\ resp # NoAnswer) =>
      /\ resp.status = 200
      /\ resp.size = resp.types["physical"] + resp.types["digital"] + resp.types["unknown"]

(* ---- C17 ---- *)
\* C17 as stated: under any interleaving of concurrent requests on the same
\* id, each Get(id) and each Delete(id) answers either success or NotFound,
\* never an internal error (500); in particular, of several concurrent
\* Delete(id) on a present id exactly one answers success and starts one delete
\* propagation, and every other one answers NotFound.
C17_Original ==
    ((Handled("get") \/ Handled("delete")) /\ resp # NoAnswer) =>
      resp.status \in {200, 404}

(* ---- C18 ---- *)
\* C18: Resync never removes an entry and never changes an entry whose id is
\* not in the remote response: every entry keeps its place, the entries of
\* listed ids hold the listed records afterwards, and the only new entries are
\* listed ones, so the store's set of ids after any Resync is a superset of the
\* set before it.  A Resync that failed changes nothing.  So a locally created
\* record whose propagation was exhausted survives Resync, and a locally
\* deleted record that the remote still holds reappears in the Entry Store.
C18_ResyncOnlyAdds ==
    [][ req'.op = "sync" =>
          LET c == PRODUCTS_CACHE
              products == req'.net.products
              listed == { products[i].id : i \in 1..Len(products) }
          IN  /\ Len(c') >= Len(c)
              /\ \A i \in 1..Len(c) :
                    /\ c'[i].id = c[i].id
                    /\ c[i].id \notin listed => c'[i] = c[i]
              /\ \A i \in (Len(c) + 1)..Len(c') : c'[i].id \in listed
              /\ IF req'.net.kind = "response" /\ req'.net.status = 200
                 THEN \A i \in 1..Len(products) : Holds(c', products[i])
                 ELSE c' = c
              /\ remote' = remote ]_vars

\* After a Resync the store holds, first, a created record whose propagation
\* was exhausted and which the remote does not hold and, after it, a record
\* that was deleted locally, whose remote delete failed, and which the remote
\* listed.
C18_Witness ==
    /\ Handled("sync") /\ resp.status = 200 /\ resp.n = 1
    /\ Len(createLog) = 2 /\ Len(delete_threads) = 1 /\ Len(PRODUCTS_CACHE) = 2
    /\ createLog[1].slot = "intact"
    /\ persist_threads[1].pc = "done" /\ ~persist_threads[1].result
    /\ PRODUCTS_CACHE[1] = createLog[1].product
    /\ ~RemoteHas(remote, createLog[1].product.id)
    /\ createLog[2].slot = "deleted"
    /\ delete_threads[1].product_id = createLog[2].product.id
    /\ delete_threads[1].pc = "done" /\ ~delete_threads[1].result
    /\ PRODUCTS_CACHE[2] = createLog[2].product
    /\ req.net.products = << createLog[2].product >>

====
